---------------------------- MODULE Spec2Model ----------------------------
(***************************************************************************)
(* A model of graevy/sleep: subjects -> sources -> (detectAPI, repository  *)
(* listing) -> metadata-only clones -> validateCommit -> deduplicated      *)
(* commit map -> output.                                                   *)
(*                                                                         *)
(* The program is sequential.  Its position is pc; every action is the     *)
(* code that runs between two network calls (a probe, a listing request,   *)
(* a clone), with the answer of the network drawn from a small set.        *)
(* Strings are TLA+ strings; time stamps are [t, off]: an instant counted  *)
(* in hours and the zone offset recorded with it.                          *)
(***************************************************************************)
EXTENDS Integers, Sequences, FiniteSets, TLC

VARIABLES
  flags,      \* the global Flags value (Since, Write, StdOut)
  pc,         \* the position of the program
  subjects,   \* the []Subject built so far by parseSubjects
  subject,    \* the Subject getSubject is building
  nsrc,       \* how many source URLs the run has taken from its configuration
  source,     \* the locals of the running getSource / parseSource call
  net,        \* history: the network traffic of the running source
  seen,       \* history: commits handed to getSubject, hash -> sightings
  out,        \* what output() has produced
  call        \* the argument and result of a function applied on its own

vars == <<flags, pc, subjects, subject, nsrc, source, net, seen, out, call>>

----------------------------------------------------------------------------
(* Bounds of the model. *)

\* how many source URLs the configuration of a run holds, over all subjects
MaxSources == 2

----------------------------------------------------------------------------
(* package strings *)

HasPrefix(s, p) == Len(s) >= Len(p) /\ SubSeq(s, 1, Len(p)) = p

HasSuffix(s, p) == Len(s) >= Len(p) /\ SubSeq(s, Len(s) - Len(p) + 1, Len(s)) = p

Contains(s, p) == \E i \in 0..(Len(s) - Len(p)) : SubSeq(s, i + 1, i + Len(p)) = p

UpperCase == "ABCDEFGHIJKLMNOPQRSTUVWXYZ"
LowerCase == "abcdefghijklmnopqrstuvwxyz"

LowerTable ==
  [c \in {SubSeq(UpperCase, i, i) : i \in 1..Len(UpperCase)} |->
     LET i == CHOOSE j \in 1..Len(UpperCase) : SubSeq(UpperCase, j, j) = c
     IN SubSeq(LowerCase, i, i)]

LowerChar(c) == IF c \in DOMAIN LowerTable THEN LowerTable[c] ELSE c

RECURSIVE ToLower(_)
ToLower(s) ==
  IF s = "" THEN ""
  ELSE LowerChar(SubSeq(s, 1, 1)) \o ToLower(SubSeq(s, 2, Len(s)))

RECURSIVE TrimLeft(_, _)
TrimLeft(s, c) ==
  IF s # "" /\ SubSeq(s, 1, 1) = c THEN TrimLeft(SubSeq(s, 2, Len(s)), c) ELSE s

RECURSIVE TrimRight(_, _)
TrimRight(s, c) ==
  IF s # "" /\ SubSeq(s, Len(s), Len(s)) = c
  THEN TrimRight(SubSeq(s, 1, Len(s) - 1), c)
  ELSE s

Trim(s, c) == TrimRight(TrimLeft(s, c), c)

\* the position of the first c in s, 0 when there is none
Index(s, c) ==
  IF Contains(s, c)
  THEN CHOOSE i \in 1..Len(s) :
         /\ SubSeq(s, i, i + Len(c) - 1) = c
         /\ \A j \in 1..(i - 1) : SubSeq(s, j, j + Len(c) - 1) # c
  ELSE 0

RECURSIVE Split(_, _)
Split(s, c) ==
  LET i == Index(s, c)
  IN IF i = 0 THEN <<s>>
     ELSE <<SubSeq(s, 1, i - 1)>> \o Split(SubSeq(s, i + 1, Len(s)), c)

----------------------------------------------------------------------------
(* package net/url, as far as getSource uses it: the authority runs to the *)
(* first "/", the path is the rest, a blank in the host is an error, and   *)
(* Hostname() drops the port.                                              *)

UrlParse(u) ==
  LET cut  == Index(u, "://")
      rest == SubSeq(u, cut + 3, Len(u))
      sl   == Index(rest, "/")
      auth == IF sl = 0 THEN rest ELSE SubSeq(rest, 1, sl - 1)
      path == IF sl = 0 THEN "" ELSE SubSeq(rest, sl, Len(rest))
      col  == Index(auth, ":")
  IN [err  |-> Contains(auth, " "),
      host |-> IF col = 0 THEN auth ELSE SubSeq(auth, 1, col - 1),
      path |-> path]

\* what getSource and parseSource read from the raw URL
SourceOf(raw) ==
  LET rawURL == IF ~HasPrefix(raw, "http://") /\ ~HasPrefix(raw, "https://")
                THEN "https://" \o raw ELSE raw
      parsed == UrlParse(rawURL)
      path   == Trim(parsed.path, "/")
      parts  == Split(path, "/")
  IN [ok       |-> ~parsed.err /\ path # "",
      url      |-> rawURL,
      host     |-> parsed.host,
      user     |-> IF parsed.err THEN "" ELSE parts[1],
      repoName |-> IF ~parsed.err /\ Len(parts) > 1 THEN parts[2] ELSE ""]

CloneURL(host, user, repoName) ==
  "https://" \o host \o "/" \o user \o "/" \o repoName \o ".git"

----------------------------------------------------------------------------
(* package time: a time.Time is [t, off]. *)

After(a, b) == a.t > b.t

Hour(w) == (w.t + w.off) % 24

----------------------------------------------------------------------------
(* validateCommit and getRepo *)

NoReplyDomain == "@users.noreply.github.com"

\* validateCommit as it would be with When.Before(flags.Since) as its first test
ValidateCommitNotBefore(commit, subjectName, githubUsername, since) ==
  IF commit.Committer.When.t < since.t THEN FALSE
  ELSE
    LET authorName  == ToLower(commit.Author.Name)
        authorEmail == ToLower(commit.Author.Email)
        username    == ToLower(githubUsername)
    IN \/ Contains(authorName, ToLower(subjectName))
       \/ /\ githubUsername # ""
          /\ \/ Contains(authorName, username)
             \/ Contains(authorEmail, username \o NoReplyDomain)
             \/ HasPrefix(authorEmail, username \o "@")

\* validateCommit as it would be without strings.ToLower on the author
ValidateCommitCased(commit, subjectName, githubUsername, since) ==
  IF ~After(commit.Committer.When, since) THEN FALSE
  ELSE
    LET authorName  == commit.Author.Name
        authorEmail == commit.Author.Email
        username    == ToLower(githubUsername)
    IN \/ Contains(authorName, ToLower(subjectName))
       \/ /\ githubUsername # ""
          /\ \/ Contains(authorName, username)
             \/ Contains(authorEmail, username \o NoReplyDomain)
             \/ HasPrefix(authorEmail, username \o "@")

ValidateCommit(commit, subjectName, githubUsername, since) ==
  IF ~After(commit.Committer.When, since) THEN FALSE
  ELSE
    LET authorName  == ToLower(commit.Author.Name)
        authorEmail == ToLower(commit.Author.Email)
        username    == ToLower(githubUsername)
    IN \/ Contains(authorName, ToLower(subjectName))
       \/ /\ githubUsername # ""
          /\ \/ Contains(authorName, username)
             \/ Contains(authorEmail, username \o NoReplyDomain)
             \/ HasPrefix(authorEmail, username \o "@")

\* a clone's answer: fail names the step that fails ("none": no step), log is
\* what repo.Log yields before the failure, if any
CloneFails == {"clone", "head", "log", "iter"}

\* the *object.Commit values of one clone: obj tells the objects of two
\* clones of the same commit apart
Objects(log, obj) ==
  [i \in 1..Len(log) |->
     [Hash |-> log[i].Hash, Author |-> log[i].Author,
      Committer |-> log[i].Committer, obj |-> obj]]

\* getRepo as it would be with the commits gathered before an error of
\* ForEach handed back
GetRepoPartial(res, subjectName, sourceUser, since, obj) ==
  LET Keep(c) == ValidateCommit(c, subjectName, sourceUser, since)
  IN IF res.fail \notin {"none", "iter"}
     THEN [ok |-> FALSE, commits |-> <<>>]
     ELSE [ok |-> TRUE, commits |-> SelectSeq(Objects(res.log, obj), Keep)]

GetRepo(res, subjectName, sourceUser, since, obj) ==
  LET Keep(c) == ValidateCommit(c, subjectName, sourceUser, since)
  IN IF res.fail # "none"
     THEN [ok |-> FALSE, commits |-> <<>>]
     ELSE [ok |-> TRUE, commits |-> SelectSeq(Objects(res.log, obj), Keep)]

----------------------------------------------------------------------------
(* detectAPI.  A fetchFunc is named by its dialect; "none" is nil. *)

\* the table of known hosts as it would be without strings.ToLower(host)
StaticDialectCased(host) ==
  IF HasSuffix(host, "github.com") THEN "github"
  ELSE IF HasSuffix(host, "gitlab.com") THEN "gitlab"
  ELSE IF \/ HasSuffix(host, "gitea.com")
          \/ HasSuffix(host, "codeberg.org")
          \/ HasSuffix(host, "forgejo.org") THEN "gitea"
  ELSE "none"

StaticDialect(host) ==
  LET h == ToLower(host)
  IN IF HasSuffix(h, "github.com") THEN "github"
     ELSE IF HasSuffix(h, "gitlab.com") THEN "gitlab"
     ELSE IF \/ HasSuffix(h, "gitea.com")
             \/ HasSuffix(h, "codeberg.org")
             \/ HasSuffix(h, "forgejo.org") THEN "gitea"
     ELSE "none"

NumProbes == 3

ProbePath(i) == <<"/api/v3", "/api/v4/version", "/api/v1/version">>[i]

ProbeDialect(i) == <<"github", "gitlab", "gitea">>[i]

\* the request check(path) sends
ProbeRequest(host, i) == "https://" \o ToLower(host) \o ProbePath(i)

\* the answer to a probe: an HTTP status, or 0 when client.Get fails
\* (3xx is an answer: CheckRedirect returns ErrUseLastResponse)
ProbeAnswers == {0, 200, 301, 401, 403, 404}

\* the answers a whole run is explored with
RunProbeAnswers == {200, 404}

\* check as it would be with a redirect taken for an answer of the API
ProbeOKRedirect(status) == status = 200 \/ status = 301 \/ status = 401 \/ status = 403

ProbeOK(status) == status = 200 \/ status = 401 \/ status = 403

----------------------------------------------------------------------------
(* The repository listing calls.  The answer to one is [status, isList,    *)
(* items]: status 0 is a failed client.Do, isList tells whether the body   *)
(* is a JSON list, items are its entries.  An entry is a function from     *)
(* field names to JSON values [t, s]: t is "string" or "number", s the     *)
(* text of a string.  A field that is absent is null.                      *)

PageCap == 100

JNull == [t |-> "null", s |-> ""]

JStr(x) == [t |-> "string", s |-> x]

JNum == [t |-> "number", s |-> ""]

Field(entry, f) == IF f \in DOMAIN entry THEN entry[f] ELSE JNull

\* json.Unmarshal into a struct field of type string: "" for null
StringField(entry, f) == IF Field(entry, f).t = "string" THEN Field(entry, f).s ELSE ""

\* json.Unmarshal fails on a value that is no string and not null
BadField(entry, f) == Field(entry, f).t \notin {"string", "null"}

RECURSIVE Flatten(_)
Flatten(ss) == IF ss = <<>> THEN <<>> ELSE Head(ss) \o Flatten(Tail(ss))

FetchError(request) == [urls |-> <<>>, err |-> TRUE, panic |-> FALSE, request |-> request]

FetchGitHubRepoURLs(host, username, resp) ==
  LET apiURL == "https://api.github.com/users/" \o username
                  \o "/repos?type=public&sort=pushed&direction=desc&per_page=100"
      bad == \E i \in 1..Len(resp.items) : BadField(resp.items[i], "clone_url")
  IN IF resp.status # 200 \/ ~resp.isList \/ bad THEN FetchError(apiURL)
     ELSE [urls |-> [i \in 1..Len(resp.items) |-> StringField(resp.items[i], "clone_url")],
           err |-> FALSE, panic |-> FALSE, request |-> apiURL]

\* the URLs one entry adds in fetchGitLabRepoURLs: the first field that is
\* not nil is asserted to be a string
GitLabField(entry) ==
  IF Field(entry, "http_url_to_repo") # JNull THEN "http_url_to_repo"
  ELSE IF Field(entry, "clone_url") # JNull THEN "clone_url"
  ELSE IF Field(entry, "ssh_url_to_repo") # JNull THEN "ssh_url_to_repo"
  ELSE ""

FetchGitLabRepoURLs(host, username, resp) ==
  LET apiBase == IF Contains(host, "gitlab")
                 THEN "https://" \o host \o "/api/v4/users/" \o username \o "/projects"
                 ELSE IF Contains(host, "gitea")
                 THEN "https://" \o host \o "/api/v1/users/" \o username \o "/repos"
                 ELSE ""
      apiURL == apiBase \o "?order_by=last_activity_at&sort=desc&per_page=100&per_page=100"
      Picked(i) == GitLabField(resp.items[i])
      panics == \E i \in 1..Len(resp.items) :
                  Picked(i) # "" /\ Field(resp.items[i], Picked(i)).t # "string"
      One(i) == IF Picked(i) = "" THEN <<>> ELSE <<Field(resp.items[i], Picked(i)).s>>
  IN IF apiBase = "" THEN FetchError("")
     ELSE IF resp.status # 200 \/ ~resp.isList THEN FetchError(apiURL)
     ELSE IF panics
     THEN [urls |-> <<>>, err |-> FALSE, panic |-> TRUE, request |-> apiURL]
     ELSE [urls |-> Flatten([i \in 1..Len(resp.items) |-> One(i)]),
           err |-> FALSE, panic |-> FALSE, request |-> apiURL]

FetchGiteaRepoURLs(host, username, resp) ==
  LET apiURL == "https://" \o host \o "/api/v1/users/" \o username
                  \o "/repos?sort=updated&limit=100"
      bad == \E i \in 1..Len(resp.items) :
               \E f \in {"clone_url", "ssh_url", "full_name"} : BadField(resp.items[i], f)
      One(i) ==
        LET r == resp.items[i]
        IN IF StringField(r, "clone_url") # "" THEN <<StringField(r, "clone_url")>>
           ELSE IF StringField(r, "ssh_url") # "" THEN <<StringField(r, "ssh_url")>>
           ELSE IF StringField(r, "full_name") # ""
           THEN <<"https://" \o host \o "/" \o StringField(r, "full_name") \o ".git">>
           ELSE <<>>
  IN IF resp.status # 200 \/ ~resp.isList \/ bad THEN FetchError(apiURL)
     ELSE [urls |-> Flatten([i \in 1..Len(resp.items) |-> One(i)]),
           err |-> FALSE, panic |-> FALSE, request |-> apiURL]

\* the call fetcher(host, user) of getSource
Fetcher(dialect, host, user, resp) ==
  IF dialect = "github" THEN FetchGitHubRepoURLs(host, user, resp)
  ELSE IF dialect = "gitlab" THEN FetchGitLabRepoURLs(host, user, resp)
  ELSE FetchGiteaRepoURLs(host, user, resp)

----------------------------------------------------------------------------
(* The world the program runs in: what the configuration may name and what *)
(* the network may answer.                                                 *)

SubjectNames == {"Alice", "bob"}

\* the source URLs subjects.toml may list
RawURLs ==
  {"github.com/alice", "git.example.org/alice", "git.example.org/alice/proj",
   "example.org", "exa mple.org/alice"}

SinceChoices == {[t |-> 50, off |-> 0]}

Stamp(t, off) == [When |-> [t |-> t, off |-> off]]

Author(name, email, t, off) ==
  [Name |-> name, Email |-> email, When |-> [t |-> t, off |-> off]]

\* written by the subject, committed after the cutoff
K1 == [Hash |-> "k1", Author |-> Author("Alice Smith", "alice@company.com", 60, 0),
       Committer |-> Stamp(60, 0)]
\* written long ago at another hour of the day, rebased after the cutoff
K2 == [Hash |-> "k2",
       Author |-> Author("al", "12345+Alice@users.noreply.github.com", 30, 2),
       Committer |-> Stamp(70, 0)]
\* written by the subject, committed at the cutoff
K3 == [Hash |-> "k3", Author |-> Author("alice", "alice@company.com", 50, 0),
       Committer |-> Stamp(50, 0)]
\* somebody else's
K4 == [Hash |-> "k4", Author |-> Author("carol", "carol@company.com", 61, 0),
       Committer |-> Stamp(61, 0)]

\* the history of the repository at a clone URL
RepoLog(repoURL) ==
  IF repoURL = "https://github.com/alice/r1.git" THEN <<K1, K2>>
  ELSE IF repoURL = "https://gitlab.com/alice/r2.git" THEN <<K2, K3, K4>>
  ELSE IF repoURL = "https://git.example.org/alice/proj.git" THEN <<K4, K3, K2>>
  ELSE <<>>

\* the answers to the clone of repoURL: the step that fails ("none": no
\* step) and what repo.Log yields; nothing can be cloned from ""
CloneAnswers(repoURL) ==
  {[fail |-> f, log |-> RepoLog(repoURL)] :
     f \in IF repoURL = "" THEN {"clone"} ELSE CloneFails \cup {"none"}}

EClone == "clone_url" :> JStr("https://github.com/alice/r1.git")
EHttp == "http_url_to_repo" :> JStr("https://gitlab.com/alice/r2.git")
EBoth == ("clone_url" :> JStr("https://gitlab.com/alice/r2.git"))
           @@ ("ssh_url" :> JStr("git@gitlab.com:alice/r2.git"))
ENone == "name" :> JStr("r3")
ENum == "clone_url" :> JNum

Listing(status, isList, items) == [status |-> status, isList |-> isList, items |-> items]

\* what a server may answer to a listing request
ListingAnswers ==
  {Listing(200, TRUE, items) : items \in {<<>>, <<EClone>>, <<EBoth, EClone>>, <<ENum>>}}
    \cup {Listing(404, FALSE, <<>>)}

----------------------------------------------------------------------------
(* The state after construction. *)

EmptyMap == [x \in {} |-> x]

NoSource ==
  [fn |-> "", ret |-> "", url |-> "", host |-> "", user |-> "", repoName |-> "",
   repos |-> 0, fetcher |-> "none", probe |-> 0, repoURLs |-> <<>>, ri |-> 0,
   allCommits |-> <<>>]

NoNet == [detect |-> 0, probes |-> <<>>, listings |-> <<>>, clones |-> <<>>]

NoSubject == [Name |-> "", Sources |-> <<>>, Commits |-> EmptyMap]

NoOut == [i |-> 0, histos |-> <<>>, plots |-> <<>>, snapshot |-> EmptyMap]

NoCall == [op |-> ""]

\* the flags main parses: every flag is set in some run and left out in
\* another, the plots with and without the histogram on the terminal
FlagChoices ==
  {[Since |-> s, Write |-> w, StdOut |-> o, PlotScatter |-> ~o, PlotHisto |-> w] :
     s \in SinceChoices, w \in BOOLEAN, o \in BOOLEAN}

Init ==
  /\ flags \in FlagChoices
  /\ pc = "main"
  /\ subjects = <<>>
  /\ subject = NoSubject
  /\ nsrc = 0
  /\ source = NoSource
  /\ net = NoNet
  /\ seen = EmptyMap
  /\ out = NoOut
  /\ call = NoCall

----------------------------------------------------------------------------
(* Go maps and the history variable seen. *)

MapPut(m, k, v) == [x \in DOMAIN m \cup {k} |-> IF x = k THEN v ELSE m[x]]

\* the merge as it would be with the map made anew for every source
MergeCommitsFresh(m, commits) ==
  [h \in {commits[i].Hash : i \in 1..Len(commits)} |->
     commits[CHOOSE i \in 1..Len(commits) :
               /\ commits[i].Hash = h
               /\ \A j \in (i + 1)..Len(commits) : commits[j].Hash # h]]

\* the merge as it would be with a test for presence before the assignment
RECURSIVE MergeCommitsFirst(_, _)
MergeCommitsFirst(m, commits) ==
  IF commits = <<>> THEN m
  ELSE IF Head(commits).Hash \in DOMAIN m THEN MergeCommitsFirst(m, Tail(commits))
  ELSE MergeCommitsFirst(MapPut(m, Head(commits).Hash, Head(commits)), Tail(commits))

\* for _, commit := range commits { subject.Commits[commit.Hash] = commit }
RECURSIVE MergeCommits(_, _)
MergeCommits(m, commits) ==
  IF commits = <<>> THEN m
  ELSE MergeCommits(MapPut(m, Head(commits).Hash, Head(commits)), Tail(commits))

\* history: how often each hash was handed over, and the objects of its
\* first and of its last sighting
RECURSIVE Sighted(_, _)
Sighted(sg, commits) ==
  IF commits = <<>> THEN sg
  ELSE LET c == Head(commits)
           e == IF c.Hash \in DOMAIN sg
                THEN [n |-> sg[c.Hash].n + 1, first |-> sg[c.Hash].first, last |-> c.obj]
                ELSE [n |-> 1, first |-> c.obj, last |-> c.obj]
       IN Sighted(MapPut(sg, c.Hash, e), Tail(commits))

----------------------------------------------------------------------------
(* main, parseSubjects, getSubject and getSource (the third version of     *)
(* main.go).                                                               *)

\* parseSubjects takes the next name of subjects.toml and calls getSubject
GetSubject(name) ==
  /\ pc = "main"
  /\ \A i \in 1..Len(subjects) : subjects[i].Name # name
  /\ subject' = [Name |-> name, Sources |-> <<>>, Commits |-> EmptyMap]
  /\ seen' = EmptyMap
  /\ pc' = "getSubject"
  /\ UNCHANGED <<flags, subjects, nsrc, source, net, out, call>>

\* the loop of the caller a finished source returns to
Caller(fn) == IF fn = "parseSource" THEN "getSubjects" ELSE "getSubject"

\* the source once its repoURLs are known: with none, its loop over them
\* is over at once
Listed(src, urls) ==
  [src EXCEPT !.repoURLs = urls, !.ri = 1, !.ret = IF urls = <<>> THEN "ok" ELSE ""]

\* the source once detectAPI has returned dialect.  parseSource calls
\* detectAPI for every source and looks at repoName afterwards; getSource
\* calls it only with repoName = ""
Detected(src, dialect) ==
  IF dialect = "none" THEN [src EXCEPT !.ret = "nil"]
  ELSE IF src.repoName # ""
  THEN Listed([src EXCEPT !.fetcher = dialect],
              <<CloneURL(src.host, src.user, src.repoName)>>)
  ELSE [src EXCEPT !.fetcher = dialect]

\* where the program is once the source is src
Position(src) ==
  IF src.ret # "" THEN "return"
  ELSE IF src.ri > 0 THEN (IF src.fn = "parseSource" THEN "clone" ELSE "getRepo")
  ELSE IF src.fetcher # "none" THEN "fetch"
  ELSE "probe"

\* the locals of getSource and parseSource once the URL is read as p
Locals(fn, p) ==
  [NoSource EXCEPT !.fn = fn, !.url = p.url, !.host = p.host, !.user = p.user,
                   !.repoName = p.repoName, !.ret = IF p.ok THEN "" ELSE "nil"]

Parsed(fn, rawURL) == Locals(fn, SourceOf(rawURL))

\* detectAPI up to its first probe
StartDetect(src) ==
  IF StaticDialect(src.host) # "none"
  THEN Detected(src, StaticDialect(src.host))
  ELSE [src EXCEPT !.probe = 1]

\* the source s1 is in progress: control is where Position says
Enter(s1, detects) ==
  /\ source' = s1
  /\ net' = [NoNet EXCEPT !.detect = IF detects THEN 1 ELSE 0]
  /\ pc' = Position(s1)

\* getSource from its locals s0 to its first network call: detectAPI is
\* called for a source without repoName only
Started(s0) ==
  IF s0.ret # "" THEN s0
  ELSE IF s0.repoName # ""
  THEN Listed(s0, <<CloneURL(s0.host, s0.user, s0.repoName)>>)
  ELSE StartDetect(s0)

Detects(s0) == s0.ret = "" /\ s0.repoName = ""

GetSource(rawURL) ==
  /\ pc = "getSubject"
  /\ nsrc < MaxSources
  /\ Enter(Started(Parsed("getSource", rawURL)), Detects(Parsed("getSource", rawURL)))
  /\ nsrc' = nsrc + 1
  /\ UNCHANGED <<flags, subjects, subject, seen, out, call>>

\* one check(path) of detectAPI and what its switch does with the answer
Probe(status) ==
  /\ pc = "probe"
  /\ LET i == source.probe
         s1 == IF ProbeOK(status) THEN Detected(source, ProbeDialect(i))
               ELSE IF i < NumProbes THEN [source EXCEPT !.probe = i + 1]
               ELSE Detected(source, "none")
     IN /\ source' = s1
        /\ net' = [net EXCEPT !.probes =
                     Append(@, [request |-> ProbeRequest(source.host, i), status |-> status])]
        /\ pc' = Position(s1)
  /\ UNCHANGED <<flags, subjects, subject, nsrc, seen, out, call>>

\* repoURLs, err = fetcher(host, user)
Fetch(resp) ==
  /\ pc = "fetch"
  /\ LET r == Fetcher(source.fetcher, source.host, source.user, resp)
         s1 == IF r.panic THEN source
               ELSE IF r.err THEN [source EXCEPT !.ret = "nil"]
               ELSE Listed(source, r.urls)
     IN /\ source' = s1
        /\ net' = [net EXCEPT !.listings =
                     IF r.request = "" THEN @ ELSE Append(@, r.request)]
        /\ pc' = IF r.panic THEN "panic" ELSE Position(s1)
  /\ UNCHANGED <<flags, subjects, subject, nsrc, seen, out, call>>

\* one turn of the loop over repoURLs in getSource: getRepo(repoURL, ...)
CloneNext ==
  /\ pc = "getRepo"
  /\ \E res \in CloneAnswers(source.repoURLs[source.ri]) :
       LET r == GetRepo(res, subject.Name, source.user, flags.Since,
                        <<Len(subject.Sources) + 1, source.ri>>)
           s1 == [source EXCEPT !.ri = @ + 1,
                                !.repos = IF r.ok THEN @ + 1 ELSE @,
                                !.allCommits = IF r.ok THEN @ \o r.commits ELSE @,
                                !.ret = IF source.ri = Len(source.repoURLs) THEN "ok" ELSE ""]
       IN /\ source' = s1
          /\ pc' = Position(s1)
          /\ net' = [net EXCEPT !.clones =
                       Append(@, [url |-> source.repoURLs[source.ri], fail |-> res.fail])]
  /\ UNCHANGED <<flags, subjects, subject, nsrc, seen, out, call>>

\* the Source value appended to subject.Sources
SourceValue(src) == [url |-> src.url, host |-> src.host, user |-> src.user, repos |-> src.repos]

\* the body of the loop of getSubject as it would be without the test
\* source == nil
GetSourceReturnKeep ==
  /\ pc = "return"
  /\ source.fn = "getSource"
  /\ subject' = [subject EXCEPT !.Sources = Append(@, SourceValue(source)),
                                !.Commits = MergeCommits(@, source.allCommits)]
  /\ seen' = Sighted(seen, source.allCommits)
  /\ source' = NoSource
  /\ net' = NoNet
  /\ pc' = Caller(source.fn)
  /\ UNCHANGED <<flags, subjects, nsrc, out, call>>

\* getSource has returned: the body of the loop of getSubject
GetSourceReturn ==
  /\ pc = "return"
  /\ source.fn = "getSource"
  /\ IF source.ret = "nil"
     THEN UNCHANGED <<subject, seen>>
     ELSE /\ subject' = [subject EXCEPT !.Sources = Append(@, SourceValue(source)),
                                        !.Commits = MergeCommits(@, source.allCommits)]
          /\ seen' = Sighted(seen, source.allCommits)
  /\ source' = NoSource
  /\ net' = NoNet
  /\ pc' = Caller(source.fn)
  /\ UNCHANGED <<flags, subjects, nsrc, out, call>>

\* the source URLs of the subject are used up: getSubject returns
GetSubjectReturn ==
  /\ pc = "getSubject"
  /\ subjects' = Append(subjects, subject)
  /\ subject' = NoSubject
  /\ seen' = EmptyMap
  /\ pc' = "main"
  /\ UNCHANGED <<flags, nsrc, source, net, out, call>>

----------------------------------------------------------------------------
(* getSubjects and parseSource (the first version of main.go, where the    *)
(* clones are made while the configuration is read).                       *)

\* getSubjects takes the next table of subjects.toml
GetSubjects(name) ==
  /\ pc = "main"
  /\ \A i \in 1..Len(subjects) : subjects[i].Name # name
  /\ subject' = [Name |-> name, Sources |-> <<>>, Commits |-> EmptyMap]
  /\ pc' = "getSubjects"
  /\ UNCHANGED <<flags, subjects, nsrc, source, net, seen, out, call>>

\* parseSource from its locals s0 to its first network call: detectAPI(host)
\* comes before the test of repoName
StartedV1(s0) == IF s0.ret # "" THEN s0 ELSE StartDetect(s0)

DetectsV1(s0) == s0.ret = ""

ParseSource(raw) ==
  /\ pc = "getSubjects"
  /\ nsrc < MaxSources
  /\ Enter(StartedV1(Parsed("parseSource", raw)), DetectsV1(Parsed("parseSource", raw)))
  /\ nsrc' = nsrc + 1
  /\ UNCHANGED <<flags, subjects, subject, seen, out, call>>

\* one turn of the cloning step of parseSource
Clone(ok) ==
  /\ pc = "clone"
  /\ LET cloned == ok /\ source.repoURLs[source.ri] # ""
         s1 == [source EXCEPT !.ri = @ + 1,
                              !.repos = IF cloned THEN @ + 1 ELSE @,
                              !.ret = IF source.ri = Len(source.repoURLs) THEN "ok" ELSE ""]
     IN /\ source' = s1
        /\ pc' = Position(s1)
        /\ net' = [net EXCEPT !.clones =
                     Append(@, [url |-> source.repoURLs[source.ri],
                                fail |-> IF cloned THEN "none" ELSE "clone"])]
  /\ UNCHANGED <<flags, subjects, subject, nsrc, seen, out, call>>

\* parseSource has returned: the body of the inner loop of getSubjects
ParseSourceReturn ==
  /\ pc = "return"
  /\ source.fn = "parseSource"
  /\ subject' = IF source.ret = "nil" THEN subject
                ELSE [subject EXCEPT !.Sources = Append(@, SourceValue(source))]
  /\ source' = NoSource
  /\ net' = NoNet
  /\ pc' = Caller(source.fn)
  /\ UNCHANGED <<flags, subjects, nsrc, seen, out, call>>

\* subjects = append(subjects, subject)
GetSubjectsAppend ==
  /\ pc = "getSubjects"
  /\ subjects' = Append(subjects, subject)
  /\ subject' = NoSubject
  /\ pc' = "main"
  /\ UNCHANGED <<flags, nsrc, source, net, seen, out, call>>

\* getSubjects returns to main, which stops without subjects
GetSubjectsReturn ==
  /\ pc = "main"
  /\ pc' = IF subjects = <<>> THEN "fatal" ELSE "parseRepos"
  /\ UNCHANGED <<flags, subjects, subject, nsrc, source, net, seen, out, call>>

----------------------------------------------------------------------------
(* output.go *)

HoursPerDay == 24

\* the loop of printSleepHisto over subject.Commits
HourCounts(commits) ==
  [h \in 0..(HoursPerDay - 1) |->
     Cardinality({k \in DOMAIN commits : Hour(commits[k].Author.When) = h})]

\* main has all its subjects: log.Fatal without any, output(subjects, flags)
\* otherwise
StartOutput ==
  /\ pc = "main"
  /\ pc' = IF subjects = <<>> THEN "fatal" ELSE "output"
  /\ out' = [NoOut EXCEPT !.i = 1]
  /\ UNCHANGED <<flags, subjects, subject, nsrc, source, net, seen, call>>

\* the plots output makes of a subject: plotCommitsScatter, then
\* plotCommitsHistogram
Plots(name) ==
  (IF flags.PlotScatter THEN <<[Name |-> name, kind |-> "scatter"]>> ELSE <<>>)
    \o (IF flags.PlotHisto THEN <<[Name |-> name, kind |-> "histogram"]>> ELSE <<>>)

\* one turn of the loop of output as it would be without the test
\* len(subject.Commits) == 0
OutputSubjectAll(disk) ==
  /\ pc = "output"
  /\ out.i <= Len(subjects)
  /\ LET sub == subjects[out.i]
         printed == flags.StdOut
         saved == printed /\ flags.Write
         fatal == saved /\ disk # "ok"
         counts == HourCounts(sub.Commits)
     IN /\ out' = [i |-> out.i + 1,
                   histos |-> IF printed
                              THEN Append(out.histos, [Name |-> sub.Name, hourCounts |-> counts])
                              ELSE out.histos,
                   plots |-> IF ~fatal THEN out.plots \o Plots(sub.Name) ELSE out.plots,
                   snapshot |-> IF saved /\ disk = "ok"
                                THEN MapPut(EmptyMap, sub.Name, counts)
                                ELSE out.snapshot]
        /\ pc' = IF fatal THEN "fatal" ELSE "output"
  /\ UNCHANGED <<flags, subjects, subject, nsrc, source, net, seen, call>>

\* one turn of the loop of output; disk tells whether save can write its file
OutputSubject(disk) ==
  /\ pc = "output"
  /\ out.i <= Len(subjects)
  /\ LET sub == subjects[out.i]
         printed == sub.Commits # EmptyMap /\ flags.StdOut
         saved == printed /\ flags.Write
         fatal == saved /\ disk # "ok"
         counts == HourCounts(sub.Commits)
     IN /\ out' = [i |-> out.i + 1,
                   histos |-> IF printed
                              THEN Append(out.histos, [Name |-> sub.Name, hourCounts |-> counts])
                              ELSE out.histos,
                   plots |-> IF sub.Commits # EmptyMap /\ ~fatal
                             THEN out.plots \o Plots(sub.Name)
                             ELSE out.plots,
                   snapshot |-> IF saved /\ disk = "ok"
                                THEN MapPut(EmptyMap, sub.Name, counts)
                                ELSE out.snapshot]
        /\ pc' = IF fatal THEN "fatal" ELSE "output"
  /\ UNCHANGED <<flags, subjects, subject, nsrc, source, net, seen, call>>

OutputReturn ==
  /\ pc = "output"
  /\ out.i > Len(subjects)
  /\ pc' = "done"
  /\ UNCHANGED <<flags, subjects, subject, nsrc, source, net, seen, out, call>>

Next ==
  \/ \E name \in SubjectNames : GetSubject(name)
  \/ \E rawURL \in RawURLs : GetSource(rawURL)
  \/ \E status \in RunProbeAnswers : Probe(status)
  \/ \E resp \in ListingAnswers : Fetch(resp)
  \/ CloneNext
  \/ GetSourceReturn
  \/ GetSubjectReturn
  \/ StartOutput
  \/ \E disk \in {"ok", "error"} : OutputSubject(disk)
  \/ OutputReturn

Spec == Init /\ [][Next]_vars

----------------------------------------------------------------------------
(* The first version of main.go reading its configuration. *)

NextV1 ==
  \/ \E name \in SubjectNames : GetSubjects(name)
  \/ \E raw \in RawURLs : ParseSource(raw)
  \/ \E status \in RunProbeAnswers : Probe(status)
  \/ \E resp \in ListingAnswers : Fetch(resp)
  \/ \E ok \in BOOLEAN : Clone(ok)
  \/ ParseSourceReturn
  \/ GetSubjectsAppend
  \/ GetSubjectsReturn

SpecV1 == Init /\ [][NextV1]_vars

----------------------------------------------------------------------------
(* getSubject over the account pages of one subject on many hosts, with    *)
(* every answer a probe can get.                                           *)

DetectURLs ==
  {"github.com/alice", "api.GitHub.com/alice", "notgithub.com/alice",
   "https://GitLab.com/alice/", "gitea.com/alice", "Codeberg.org/alice",
   "code.forgejo.org/alice", "git.example.org/alice", "Git.Example.org:8443/alice",
   "gitlab.example.org/alice", "github.com.example.org/alice"}

DetectListings ==
  {Listing(200, TRUE, <<>>), Listing(200, TRUE, <<ENum>>), Listing(404, FALSE, <<>>)}

InitDetect ==
  /\ flags \in [Since : SinceChoices, Write : {TRUE}, StdOut : {TRUE},
                 PlotScatter : {FALSE}, PlotHisto : {FALSE}]
  /\ pc = "getSubject"
  /\ subjects = <<>>
  /\ subject = [Name |-> "Alice", Sources |-> <<>>, Commits |-> EmptyMap]
  /\ nsrc = 0
  /\ source = NoSource
  /\ net = NoNet
  /\ seen = EmptyMap
  /\ out = NoOut
  /\ call = NoCall

NextDetect ==
  \/ \E rawURL \in DetectURLs : GetSource(rawURL)
  \/ \E status \in ProbeAnswers : Probe(status)
  \/ \E resp \in DetectListings : Fetch(resp)
  \/ GetSourceReturn

SpecDetect == InitDetect /\ [][NextDetect]_vars

----------------------------------------------------------------------------
(* validateCommit on its own: one call with arguments of every kind.       *)

ValidateNames == {"Alice Smith", "ALICE", "al", "carol"}

ValidateEmails ==
  {"alice@company.com", "12345+Alice@users.noreply.github.com",
   "7+alice@users.noreply.gitlab.com", "malice@company.com", "carol@company.com"}

ValidateWhens == {49, 50, 51}

ValidateSubjects == {"Alice", "Bob"}

ValidateUsers == {"alice", "Alice", "bob", ""}

ValidateCommits ==
  {[Hash |-> "k", Author |-> Author(n, e, 40, 0), Committer |-> Stamp(t, 0)] :
     n \in ValidateNames, e \in ValidateEmails, t \in ValidateWhens}

\* the state around one call of a function: call holds its arguments
InitCall ==
  /\ flags \in [Since : SinceChoices, Write : {TRUE}, StdOut : {TRUE},
                 PlotScatter : {FALSE}, PlotHisto : {FALSE}]
  /\ pc = "call"
  /\ subjects = <<>>
  /\ subject = NoSubject
  /\ nsrc = 0
  /\ source = NoSource
  /\ net = NoNet
  /\ seen = EmptyMap
  /\ out = NoOut

InitValidate ==
  /\ InitCall
  /\ call \in [op : {"validateCommit"}, commit : ValidateCommits,
               subjectName : ValidateSubjects, githubUsername : ValidateUsers,
               done : {FALSE}, result : {FALSE}]

CallValidateCommit ==
  /\ pc = "call"
  /\ call.op = "validateCommit"
  /\ ~call.done
  /\ call' = [call EXCEPT !.done = TRUE,
                          !.result = ValidateCommit(call.commit, call.subjectName,
                                                    call.githubUsername, flags.Since)]
  /\ UNCHANGED <<flags, pc, subjects, subject, nsrc, source, net, seen, out>>

SpecValidate == InitValidate /\ [][CallValidateCommit]_vars

----------------------------------------------------------------------------
(* The three listing calls on their own: one call against every answer,    *)
(* one of them longer than the page the request asks for.                  *)

EFull == "full_name" :> JStr("alice/r3")

Rep(entry, n) == [i \in 1..n |-> entry]

FetchHosts ==
  {"github.com", "gitlab.com", "GitLab.example.org", "gitea.example.org",
   "git.example.org"}

FetchResponses ==
  ListingAnswers
    \cup {Listing(200, TRUE, items) :
            items \in {<<EHttp, EClone>>, <<ENone>>, <<EFull, ENone>>,
                       Rep(EBoth, PageCap), Rep(EClone, PageCap + 1)}}
    \cup {Listing(200, FALSE, <<>>), Listing(0, FALSE, <<>>)}

InitFetch ==
  /\ InitCall
  /\ call \in [op : {"fetcher"}, dialect : {"github", "gitlab", "gitea"},
               host : FetchHosts, user : {"alice"}, resp : FetchResponses,
               done : {FALSE}, result : {FetchError("")}]

CallFetcher ==
  /\ pc = "call"
  /\ call.op = "fetcher"
  /\ ~call.done
  /\ call' = [call EXCEPT !.done = TRUE,
                          !.result = Fetcher(call.dialect, call.host, call.user, call.resp)]
  /\ UNCHANGED <<flags, pc, subjects, subject, nsrc, source, net, seen, out>>

SpecFetch == InitFetch /\ [][CallFetcher]_vars

----------------------------------------------------------------------------
(* estimateSleepSchedule (sleep.go).  Its commits matter through their     *)
(* hour TimeOfDay / 3600 alone, so a call is given by the histogram        *)
(* hourCounts its first loop builds.                                       *)

ScanLen == 48

MinWindow == 4

RECURSIVE SumTo(_, _)
SumTo(hourCounts, h) ==
  IF h < 0 THEN 0 ELSE hourCounts[h] + SumTo(hourCounts, h - 1)

\* len(commits)
TotalCommits(hourCounts) == SumTo(hourCounts, HoursPerDay - 1)

\* int(float64(totalCommits) / 24.0 * 0.05), not below 1.  The conversion
\* to int cuts the fraction off; the product is never within a rounding
\* error of a whole number unless 480 divides totalCommits, and then the
\* float64 nearest to 0.05 lies above 0.05, so the quotient of integers
\* is what the float64 computation gives
Threshold(totalCommits) ==
  IF (totalCommits * 5) \div (HoursPerDay * 100) < 1 THEN 1
  ELSE (totalCommits * 5) \div (HoursPerDay * 100)

\* the loop condition i < 48
InScanOnce(i) == i < HoursPerDay

InScan(i) == i < ScanLen

\* the variables of the scan before its first iteration
NoScan ==
  [i |-> 0, longestStart |-> 0, longestLen |-> 0, currentStart |-> -1, currentLen |-> 0]

\* one iteration of the scan as it would be with currentLen >= longestLen
ScanStepLast(st, hourCounts, threshold) ==
  IF hourCounts[st.i % HoursPerDay] <= threshold
  THEN [i            |-> st.i + 1,
        currentStart |-> IF st.currentLen = 0 THEN st.i % HoursPerDay ELSE st.currentStart,
        currentLen   |-> st.currentLen + 1,
        longestLen   |-> IF st.currentLen + 1 >= st.longestLen
                         THEN st.currentLen + 1 ELSE st.longestLen,
        longestStart |-> IF st.currentLen + 1 >= st.longestLen
                         THEN (IF st.currentLen = 0 THEN st.i % HoursPerDay ELSE st.currentStart)
                         ELSE st.longestStart]
  ELSE [st EXCEPT !.i = st.i + 1, !.currentLen = 0]

\* one iteration of the scan, i++ included
ScanStep(st, hourCounts, threshold) ==
  IF hourCounts[st.i % HoursPerDay] <= threshold
  THEN [i            |-> st.i + 1,
        currentStart |-> IF st.currentLen = 0 THEN st.i % HoursPerDay ELSE st.currentStart,
        currentLen   |-> st.currentLen + 1,
        longestLen   |-> IF st.currentLen + 1 > st.longestLen
                         THEN st.currentLen + 1 ELSE st.longestLen,
        longestStart |-> IF st.currentLen + 1 > st.longestLen
                         THEN (IF st.currentLen = 0 THEN st.i % HoursPerDay ELSE st.currentStart)
                         ELSE st.longestStart]
  ELSE [st EXCEPT !.i = st.i + 1, !.currentLen = 0]

\* the scan from the variables st to its end
RECURSIVE Scan(_, _, _)
Scan(st, hourCounts, threshold) ==
  IF ~InScan(st.i) THEN st
  ELSE Scan(ScanStep(st, hourCounts, threshold), hourCounts, threshold)

NoEstimate ==
  [analysed |-> FALSE, threshold |-> 0, longestStart |-> 0, longestLen |-> 0,
   window |-> FALSE, sleepStart |-> 0, sleepEnd |-> 0]

\* the report as it would be with longestLen > 4
EstimateOver(st, threshold) ==
  [analysed |-> TRUE, threshold |-> threshold,
   longestStart |-> st.longestStart, longestLen |-> st.longestLen,
   window |-> st.longestLen > MinWindow,
   sleepStart |-> IF st.longestLen > MinWindow THEN st.longestStart ELSE 0,
   sleepEnd |-> IF st.longestLen > MinWindow
                THEN (st.longestStart + st.longestLen) % HoursPerDay ELSE 0]

\* what estimateSleepSchedule computes and prints from the scan st
Estimate(st, threshold) ==
  [analysed |-> TRUE, threshold |-> threshold,
   longestStart |-> st.longestStart, longestLen |-> st.longestLen,
   window |-> st.longestLen >= MinWindow,
   sleepStart |-> IF st.longestLen >= MinWindow THEN st.longestStart ELSE 0,
   sleepEnd |-> IF st.longestLen >= MinWindow
                THEN (st.longestStart + st.longestLen) % HoursPerDay ELSE 0]

EstimateSleepSchedule(hourCounts) ==
  IF TotalCommits(hourCounts) = 0 THEN NoEstimate
  ELSE Estimate(Scan(NoScan, hourCounts, Threshold(TotalCommits(hourCounts))),
                Threshold(TotalCommits(hourCounts)))

\* hour h lies in the run of len hours from hour start, around the clock
InRun(h, start, len) == (h - start) % HoursPerDay < len

\* the histograms of the calls: up to two quiet stretches, with lo and with
\* mid commits in each of their hours, and hi commits in every other hour
Histogram(a1, l1, a2, l2, lo, mid, hi) ==
  [h \in 0..(HoursPerDay - 1) |->
     IF InRun(h, a1, l1) THEN lo ELSE IF InRun(h, a2, l2) THEN mid ELSE hi]

QuietLengths == {0, 1, 3, 4, 6, 24}

SecondQuietLengths == {0, 3, 6}

Levels ==
  {<<0, 0, 0>>, <<0, 0, 1>>, <<0, 0, 2>>, <<0, 0, 10>>, <<0, 0, 40>>, <<1, 1, 10>>,
   <<2, 2, 60>>, <<3, 3, 60>>, <<0, 1, 10>>, <<0, 2, 60>>}

Histograms ==
  {Histogram(a1, l1, a2, l2, lv[1], lv[2], lv[3]) :
     a1 \in 0..(HoursPerDay - 1), l1 \in QuietLengths,
     a2 \in 0..(HoursPerDay - 1), l2 \in SecondQuietLengths, lv \in Levels}

InitEstimate ==
  /\ InitCall
  /\ call \in [op : {"estimateSleepSchedule"}, hourCounts : Histograms,
               done : {FALSE}, result : {NoEstimate}]

CallEstimate ==
  /\ pc = "call"
  /\ call.op = "estimateSleepSchedule"
  /\ ~call.done
  /\ call' = [call EXCEPT !.done = TRUE, !.result = EstimateSleepSchedule(call.hourCounts)]
  /\ UNCHANGED <<flags, pc, subjects, subject, nsrc, source, net, seen, out>>

SpecEstimate == InitEstimate /\ [][CallEstimate]_vars

----------------------------------------------------------------------------
(* printSleepHisto (output.go), with the order in which range hands out    *)
(* the entries of subject.Commits made explicit: the Go runtime picks it   *)
(* anew for every loop over a map.                                         *)

\* the sequences that hold every member of S once
Orders(S) ==
  {f \in [1..Cardinality(S) -> S] :
     \A i \in 1..Cardinality(S) : \A j \in 1..Cardinality(S) : f[i] = f[j] => i = j}

TermWidth == 80

\* hourCounts and maxi before the loop; i counts the entries range has
\* handed out
NoHisto == [i |-> 0, hourCounts |-> [h \in 0..(HoursPerDay - 1) |-> 0], maxi |-> 0]

\* the body of the loop as it would be with hourCounts[hour]++ inside
\* the test hour > maxi
HistoStepInside(st, commit) ==
  IF Hour(commit.Author.When) > st.maxi
  THEN [i          |-> st.i + 1,
        hourCounts |-> [st.hourCounts EXCEPT ![Hour(commit.Author.When)] = @ + 1],
        maxi       |-> Hour(commit.Author.When)]
  ELSE [st EXCEPT !.i = st.i + 1]

\* the body of the loop for one commit
HistoStep(st, commit) ==
  [i          |-> st.i + 1,
   hourCounts |-> [st.hourCounts EXCEPT ![Hour(commit.Author.When)] = @ + 1],
   maxi       |-> IF Hour(commit.Author.When) > st.maxi
                  THEN Hour(commit.Author.When) ELSE st.maxi]

\* the loop over the entries of commits in the order keys
RECURSIVE HistoLoop(_, _, _)
HistoLoop(st, commits, keys) ==
  IF st.i = Len(keys) THEN st
  ELSE HistoLoop(HistoStep(st, commits[keys[st.i + 1]]), commits, keys)

\* len(fmt.Sprintf("%d", n)) for n >= 0
RECURSIVE Digits(_)
Digits(n) == IF n < 10 THEN 1 ELSE 1 + Digits(n \div 10)

\* the number of '#' printed for count.  The scaled length is
\* int(float64(count) * (80 / float64(maxi))), taken here as the quotient
\* of integers
Hashtags(count, maxi) ==
  IF maxi > TermWidth THEN (count * TermWidth) \div maxi ELSE count

\* what printSleepHisto prints after its loop: for every hour the count,
\* padded with zeros to width, and the bar
Printed(st) ==
  [hourCounts |-> st.hourCounts, maxi |-> st.maxi, width |-> Digits(st.maxi),
   hashtags |-> [h \in 0..(HoursPerDay - 1) |-> Hashtags(st.hourCounts[h], st.maxi)]]

PrintSleepHisto(commits, keys) == Printed(HistoLoop(NoHisto, commits, keys))

\* a commit written at hour
HistoCommit(hour) ==
  [Hash |-> "k", Author |-> Author("alice", "alice@company.com", 22 + hour, 2),
   Committer |-> Stamp(60, 0)]

\* the maps of the calls: a few commits at any of three hours, and crowds
\* of n commits, the first m of them at hour h1 and the others at hour h2
HistoHours == {0, 9, 23}

FewCommits ==
  UNION {[1..n -> {HistoCommit(h) : h \in HistoHours}] : n \in 1..3}

Crowd(n, m, h1, h2) == [k \in 1..n |-> HistoCommit(IF k <= m THEN h1 ELSE h2)]

CrowdSizes == {9, 10, 80, 81, 100, 101}

Crowds ==
  {Crowd(n, n - d, h1, h2) :
     n \in CrowdSizes, d \in {0, 1}, h1 \in {5, 9, 10, 23}, h2 \in {0, 12}}

\* the orders a crowd is handed out in
Ascending(n) == [k \in 1..n |-> k]

Descending(n) == [k \in 1..n |-> n + 1 - k]

HistoCalls ==
  UNION {{[commits |-> m, keys |-> keys] : keys \in Orders(DOMAIN m)} : m \in FewCommits}
    \cup UNION {{[commits |-> m, keys |-> Ascending(Len(m))],
                 [commits |-> m, keys |-> Descending(Len(m))]} : m \in Crowds}

NoPrinted ==
  [hourCounts |-> NoHisto.hourCounts, maxi |-> 0, width |-> 0,
   hashtags |-> NoHisto.hourCounts]

InitHisto ==
  /\ InitCall
  /\ call \in {[op |-> "printSleepHisto", commits |-> c.commits, keys |-> c.keys,
                done |-> FALSE, result |-> NoPrinted] : c \in HistoCalls}

CallPrintSleepHisto ==
  /\ pc = "call"
  /\ call.op = "printSleepHisto"
  /\ ~call.done
  /\ call' = [call EXCEPT !.done = TRUE,
                          !.result = PrintSleepHisto(call.commits, call.keys)]
  /\ UNCHANGED <<flags, pc, subjects, subject, nsrc, source, net, seen, out>>

SpecHisto == InitHisto /\ [][CallPrintSleepHisto]_vars

----------------------------------------------------------------------------
(* The pipeline run again on the same raw records: getSubject over the     *)
(* answers of the sources, printSleepHisto over the map it built, the      *)
(* estimator over the histogram.                                           *)

MaxRuns == 2

\* the commits getSource hands back: those of its repositories, in order
SourceCommits(src, s, subjectName, sourceUser, since) ==
  Flatten([r \in 1..Len(src) |->
             GetRepo(src[r], subjectName, sourceUser, since, <<s, r>>).commits])

\* the loop of getSubject from source s on
RECURSIVE SubjectCommits(_, _, _, _, _, _)
SubjectCommits(m, raw, s, subjectName, sourceUser, since) ==
  IF s > Len(raw) THEN m
  ELSE SubjectCommits(
         MergeCommits(m, SourceCommits(raw[s], s, subjectName, sourceUser, since)),
         raw, s + 1, subjectName, sourceUser, since)

\* what one run yields: the map, the histogram counted in the order keys,
\* the estimate
RunResult(keys, commits, st) ==
  [keys |-> keys, commits |-> commits, hourCounts |-> st.hourCounts,
   estimate |-> EstimateSleepSchedule(st.hourCounts)]

\* the runs over one map, one for every order of its entries
RunsOver(commits) ==
  {RunResult(keys, commits, HistoLoop(NoHisto, commits, keys)) :
     keys \in Orders(DOMAIN commits)}

\* the answers of the clones of one source, and the raw records of a run
RerunAnswers ==
  {[fail |-> "none", log |-> RepoLog("https://github.com/alice/r1.git")],
   [fail |-> "none", log |-> RepoLog("https://gitlab.com/alice/r2.git")],
   [fail |-> "none", log |-> RepoLog("https://git.example.org/alice/proj.git")],
   [fail |-> "iter", log |-> RepoLog("https://github.com/alice/r1.git")]}

RerunSources == [1..1 -> RerunAnswers] \cup [1..2 -> RerunAnswers]

RerunRaws == [1..1 -> RerunSources] \cup [1..2 -> RerunSources]

RerunSinces == {[t |-> 50, off |-> 0], [t |-> 40, off |-> 0]}

InitRerun ==
  /\ InitCall
  /\ call \in [op : {"pipeline"}, raw : RerunRaws, subjectName : {"Alice"},
               sourceUser : {"alice"}, since : RerunSinces, runs : {<<>>}]

Rerun ==
  /\ pc = "call"
  /\ call.op = "pipeline"
  /\ Len(call.runs) < MaxRuns
  /\ \E run \in RunsOver(SubjectCommits(EmptyMap, call.raw, 1, call.subjectName,
                                        call.sourceUser, call.since)) :
       call' = [call EXCEPT !.runs = Append(@, run)]
  /\ UNCHANGED <<flags, pc, subjects, subject, nsrc, source, net, seen, out>>

SpecRerun == InitRerun /\ [][Rerun]_vars

----------------------------------------------------------------------------
(* Properties of getSubject and validateCommit.                            *)

\* C1: after getSubject has merged any sequence of sources, with repeats
\* inside one source or across sources and in any order of arrival,
\* subject.Commits holds exactly one entry per distinct commit hash handed
\* over: its keys are the hashes seen, its size is their number, and every
\* entry is stored under its own hash.
OneEntryPerHash ==
  /\ DOMAIN subject.Commits = DOMAIN seen
  /\ Cardinality(DOMAIN subject.Commits) = Cardinality(DOMAIN seen)
  /\ \A h \in DOMAIN subject.Commits : subject.Commits[h].Hash = h
  /\ \A i \in 1..Len(subjects) :
       \A h \in DOMAIN subjects[i].Commits : subjects[i].Commits[h].Hash = h

\* C1, its case: two sources are merged, one hash came more than once and
\* another hash came too
RepeatedHashMerged ==
  /\ Len(subject.Sources) = 2
  /\ Cardinality(DOMAIN subject.Commits) >= 2
  /\ \E h \in DOMAIN seen : seen[h].n >= 2

\* C2, as written: a commit whose hash is already in subject.Commits leaves
\* the stored entry as it is, so the map keeps the object of the first
\* sighting.
FirstSightingKept ==
  \A h \in DOMAIN subject.Commits :
    h \in DOMAIN seen => subject.Commits[h].obj = seen[h].first

\* C2, amended: a commit whose hash is already in subject.Commits replaces
\* the stored entry, so the map keeps the object of the last sighting of
\* every hash.
LastSightingKept ==
  \A h \in DOMAIN subject.Commits :
    h \in DOMAIN seen /\ subject.Commits[h].obj = seen[h].last

\* C2, its case: a hash was sighted again in another clone and the map
\* holds the later object
LaterObjectStored ==
  \E h \in DOMAIN subject.Commits :
    /\ h \in DOMAIN seen
    /\ seen[h].n >= 2
    /\ seen[h].first # seen[h].last
    /\ subject.Commits[h].obj = seen[h].last

\* C3: every commit retained (in allCommits of the source in progress, in
\* the map of the subject in progress and in the maps of the finished
\* subjects) has a committer timestamp strictly after flags.Since, also
\* when its author matches.
RetainedAfterCutoff ==
  /\ \A i \in 1..Len(source.allCommits) :
       After(source.allCommits[i].Committer.When, flags.Since)
  /\ \A h \in DOMAIN subject.Commits :
       After(subject.Commits[h].Committer.When, flags.Since)
  /\ \A i \in 1..Len(subjects) :
       \A h \in DOMAIN subjects[i].Commits :
         After(subjects[i].Commits[h].Committer.When, flags.Since)

\* C3, its case: a repository whose log holds a commit by the subject
\* committed at the cutoff was cloned, and of its log only the later commit
\* by the subject was retained
CutoffCommitDropped ==
  /\ pc = "return"
  /\ subject.Name = "Alice"
  /\ source.repos = 1
  /\ source.repoURLs = <<"https://git.example.org/alice/proj.git">>
  /\ K3 \in {RepoLog(source.repoURLs[1])[i] : i \in 1..Len(RepoLog(source.repoURLs[1]))}
  /\ K3.Committer.When = flags.Since
  /\ {source.allCommits[i].Hash : i \in 1..Len(source.allCommits)} = {"k2"}

\* what the four conditions of the authorship test compare
NameHas(commit, who) == Contains(ToLower(commit.Author.Name), ToLower(who))

EmailHas(commit, what) == Contains(ToLower(commit.Author.Email), ToLower(what))

EmailBegins(commit, what) == HasPrefix(ToLower(commit.Author.Email), ToLower(what))

\* C4, as written: a commit committed strictly after the cutoff is accepted
\* if and only if, case-insensitively, the author name contains the subject
\* name, or the author name contains the account, or the author email
\* contains "{account}@" anywhere, or the author email begins with
\* "{account}@" (for an account as getSource passes it, which is never
\* empty).
AcceptedIffAccountAtAnywhere ==
  (call.op = "validateCommit" /\ call.done /\ call.githubUsername # ""
     /\ After(call.commit.Committer.When, flags.Since)) =>
    (call.result <=>
       \/ NameHas(call.commit, call.subjectName)
       \/ NameHas(call.commit, call.githubUsername)
       \/ EmailHas(call.commit, call.githubUsername \o "@")
       \/ EmailBegins(call.commit, call.githubUsername \o "@"))

\* C4, amended: a commit committed strictly after the cutoff is accepted if
\* and only if, case-insensitively, the author name contains the subject
\* name, or the account is not empty and the author name contains the
\* account, or the author email contains
\* "{account}@users.noreply.github.com", or the author email begins with
\* "{account}@".
AcceptedIffNoReplyOrPrefix ==
  (call.op = "validateCommit" /\ call.done
     /\ After(call.commit.Committer.When, flags.Since)) =>
    (call.result <=>
       \/ NameHas(call.commit, call.subjectName)
       \/ /\ call.githubUsername # ""
          /\ \/ NameHas(call.commit, call.githubUsername)
             \/ EmailHas(call.commit, call.githubUsername \o "@users.noreply.github.com")
             \/ EmailBegins(call.commit, call.githubUsername \o "@"))

\* C4, its case: a commit after the cutoff is accepted for its no-reply
\* address on GitHub alone, written in another case than the account
AcceptedByNoReply ==
  /\ call.op = "validateCommit"
  /\ call.done
  /\ call.result
  /\ After(call.commit.Committer.When, flags.Since)
  /\ call.commit.Author.Name = "carol"
  /\ call.commit.Author.Email = "12345+Alice@users.noreply.github.com"
  /\ call.subjectName = "Bob"
  /\ call.githubUsername = "alice"

\* the histogram of the hours of the committer timestamps
CommitterHourCounts(commits) ==
  [h \in 0..(HoursPerDay - 1) |->
     Cardinality({k \in DOMAIN commits : Hour(commits[k].Committer.When) = h})]

\* C5: the bucket incremented for a commit is the hour of its committer
\* timestamp, the timestamp the cutoff test compares: every histogram
\* printed counts the commits of its subject by committer hour.
BucketIsCommitterHour ==
  \A i \in 1..Len(out.histos) :
    \A j \in 1..Len(subjects) :
      subjects[j].Name = out.histos[i].Name =>
        out.histos[i].hourCounts = CommitterHourCounts(subjects[j].Commits)

----------------------------------------------------------------------------
(* Properties of detectAPI, getSource, parseSource and the listing calls.  *)

\* the static table of detectAPI as the documentation gives it
SuffixTable ==
  <<[suffix |-> "github.com", dialect |-> "github"],
    [suffix |-> "gitlab.com", dialect |-> "gitlab"],
    [suffix |-> "gitea.com", dialect |-> "gitea"],
    [suffix |-> "codeberg.org", dialect |-> "gitea"],
    [suffix |-> "forgejo.org", dialect |-> "gitea"]>>

StaticMatch(host) ==
  {i \in DOMAIN SuffixTable : HasSuffix(ToLower(host), SuffixTable[i].suffix)}

\* C6: for every host that, lower-cased, ends with a suffix of the static
\* table, detectAPI returns the dialect of that suffix and sends no probe.
StaticSuffixNoProbe ==
  (net.detect = 1 /\ StaticMatch(source.host) # {}) =>
    /\ net.probes = <<>>
    /\ pc # "probe"
    /\ \A i \in StaticMatch(source.host) : source.fetcher = SuffixTable[i].dialect

\* C6, its case: detectAPI has returned for a host of the table written in
\* capitals
StaticHostDetected ==
  /\ net.detect = 1
  /\ source.host = "GitLab.com"
  /\ pc = "fetch"
  /\ source.fetcher = "gitlab"
  /\ net.probes = <<>>

\* the probes in their order and what makes one succeed, as documented
ProbeOrder ==
  <<[path |-> "/api/v3", dialect |-> "github"],
    [path |-> "/api/v4/version", dialect |-> "gitlab"],
    [path |-> "/api/v1/version", dialect |-> "gitea"]>>

Succeeds(status) == status \in {200, 401, 403}

\* C7: for a host without static match the probes go to /api/v3,
\* /api/v4/version and /api/v1/version in this order, one at a time; a probe
\* succeeds exactly on 200, 401 or 403; the result is the dialect of the
\* first probe that succeeds, and after three failures the result is nil,
\* the source is given up and no listing call and no clone is made for it.
FirstSuccessfulProbeWins ==
  (net.detect = 1 /\ StaticMatch(source.host) = {}) =>
    /\ Len(net.probes) <= Len(ProbeOrder)
    /\ \A i \in 1..Len(net.probes) :
         net.probes[i].request = "https://" \o ToLower(source.host) \o ProbeOrder[i].path
    /\ \A i \in 1..(Len(net.probes) - 1) : ~Succeeds(net.probes[i].status)
    /\ pc = "probe" =>
         /\ \A i \in 1..Len(net.probes) : ~Succeeds(net.probes[i].status)
         /\ source.probe = Len(net.probes) + 1
         /\ source.fetcher = "none"
         /\ net.listings = <<>>
    /\ pc # "probe" =>
         /\ Len(net.probes) >= 1
         /\ IF Succeeds(net.probes[Len(net.probes)].status)
            THEN source.fetcher = ProbeOrder[Len(net.probes)].dialect
            ELSE /\ Len(net.probes) = Len(ProbeOrder)
                 /\ source.fetcher = "none"
                 /\ source.ret = "nil"
                 /\ pc = "return"
                 /\ net.listings = <<>>
                 /\ net.clones = <<>>

\* C7, its case: the first probe was answered with a redirect, the second
\* with 401, and the listing call of GitLab is about to be made
SecondProbeWins ==
  /\ pc = "fetch"
  /\ StaticMatch(source.host) = {}
  /\ Len(net.probes) = 2
  /\ net.probes[1].status = 301
  /\ net.probes[2].status = 401
  /\ source.fetcher = "gitlab"

\* an account page (no repository named) on host was made a Source before
AccountSourceOn(sources, host) ==
  \E i \in 1..Len(sources) :
    sources[i].host = host /\ SourceOf(sources[i].url).repoName = ""

ResolvedBefore(host) ==
  \/ AccountSourceOn(subject.Sources, host)
  \/ \E j \in 1..Len(subjects) : AccountSourceOn(subjects[j].Sources, host)

\* C8: within one run the dialect of a host is resolved at most once: when
\* an account source of this or of an earlier subject has named the host,
\* no probe is sent for it again.
ResolvedOncePerHost ==
  (net.detect = 1 /\ ResolvedBefore(source.host)) => net.probes = <<>>

\* C9: for a source URL that names a repository exactly one clone URL
\* https://{host}/{account}/{repository}.git is made, and neither detectAPI
\* nor a probe nor a listing call takes place for that source.
RepositorySourceBypassesDetection ==
  (source.fn # "" /\ source.ret # "nil" /\ source.repoName # "") =>
    /\ net.detect = 0
    /\ net.probes = <<>>
    /\ net.listings = <<>>
    /\ source.repoURLs = <<CloneURL(source.host, source.user, source.repoName)>>

\* C10: a listing call never returns more than 100 clone URLs, whatever the
\* number of entries in the answer of the server.
EnumeratorWithinPageCap ==
  (call.op = "fetcher" /\ call.done) => Len(call.result.urls) <= PageCap

----------------------------------------------------------------------------
(* Properties of the failure paths.                                        *)

\* C11: an entry of a listing answer without any of the URL fields adds no
\* clone URL: for every dialect every URL a listing call returns is a
\* non-empty string.
EnumeratedURLsNonEmpty ==
  (call.op = "fetcher" /\ call.done) =>
    \A i \in 1..Len(call.result.urls) : call.result.urls[i] # ""

\* the status is no 2xx, the body is no list, or an entry has a URL field
\* that is neither a string nor null
Malformed(resp) ==
  \/ resp.status \notin 200..299
  \/ ~resp.isList
  \/ \E i \in 1..Len(resp.items) :
       \E f \in DOMAIN resp.items[i] : resp.items[i][f].t \notin {"string", "null"}

\* C12: a listing call answered with a status that is no 2xx or with a
\* malformed body returns an error value to its caller; it does not end
\* the run.
MalformedListingIsError ==
  (call.op = "fetcher" /\ call.done /\ Malformed(call.resp)) =>
    call.result.err /\ ~call.result.panic

\* C13: a source that fails (its URL does not parse or has no path, its
\* dialect is unknown, or its listing call returns an error) has no commits
\* and no clones, is not appended to subject.Sources, leaves the commits
\* merged before as they are, and getSubject goes on with its loop over the
\* sources.
FailedSourceSkipped ==
  [][/\ (source.fn = "getSource" /\ ~SourceOf(source.url).ok) =>
          (pc = "return" /\ source.ret = "nil")
     /\ (pc = "return" /\ source.fn = "getSource" /\ source.ret = "nil") =>
          /\ source.allCommits = <<>>
          /\ source.repos = 0
          /\ subject' = subject
          /\ seen' = seen
          /\ pc' = "getSubject"]_vars

\* C13, its case: of two sources one has failed and was skipped, and the
\* commits of the other one are in the map
OneSourceSkipped ==
  /\ pc = "getSubject"
  /\ nsrc = 2
  /\ Len(subject.Sources) = 1
  /\ subject.Commits # EmptyMap

\* C14: a repository whose clone, HEAD, log or traversal fails adds none of
\* its commits to the source, not even those accepted before the traversal
\* failed, and is not counted; the repositories after it are still taken,
\* each in its turn.
FailedRepoGivesNothing ==
  source.fn = "getSource" =>
    /\ Len(net.clones) = IF source.ri = 0 THEN 0 ELSE source.ri - 1
    /\ \A i \in 1..Len(net.clones) : net.clones[i].url = source.repoURLs[i]
    /\ source.repos = Cardinality({i \in 1..Len(net.clones) : net.clones[i].fail = "none"})
    /\ \A k \in 1..Len(source.allCommits) :
         net.clones[source.allCommits[k].obj[2]].fail = "none"
    /\ (pc = "return" /\ source.ret = "ok") => Len(net.clones) = Len(source.repoURLs)

\* C14, its case: the traversal of the first repository failed after
\* commits of the subject, the second repository was cloned and its commits
\* are the only ones of the source
SecondRepoAfterFailure ==
  /\ pc = "return"
  /\ source.fn = "getSource"
  /\ Len(net.clones) = 2
  /\ net.clones[1].fail = "iter"
  /\ \E i \in 1..Len(RepoLog(net.clones[1].url)) :
       ValidateCommit(RepoLog(net.clones[1].url)[i], subject.Name, source.user, flags.Since)
  /\ net.clones[2].fail = "none"
  /\ source.repos = 1
  /\ source.allCommits # <<>>
  /\ \A k \in 1..Len(source.allCommits) : source.allCommits[k].obj[2] = 2

\* C15: a subject without commits gets no histogram, no plot and no
\* snapshot, and output does not stop at it: the loop goes on with the next
\* subject.
EmptySubjectNoOutput ==
  \A j \in 1..Len(subjects) :
    (pc \in {"output", "done", "fatal"} /\ subjects[j].Commits = EmptyMap) =>
      /\ \A i \in 1..Len(out.histos) : out.histos[i].Name # subjects[j].Name
      /\ \A i \in 1..Len(out.plots) : out.plots[i].Name # subjects[j].Name
      /\ subjects[j].Name \notin DOMAIN out.snapshot
      /\ pc = "fatal" => out.i - 1 # j

\* C15, its case: the first subject had no commits and was passed over, the
\* second one has its histogram
EmptySubjectPassedOver ==
  /\ pc = "output"
  /\ out.i = 3
  /\ subjects[1].Commits = EmptyMap
  /\ subjects[2].Commits # EmptyMap
  /\ Len(out.histos) = 1
  /\ out.histos[1].Name = subjects[2].Name

\* C16: once the subjects are read, nothing met while fetching, resolving
\* or writing the output of one subject ends the run before every subject
\* is handled: it never ends in a panic, and it ends in a fatal error only
\* without subjects or after the last of them.
OnlyConfigurationIsFatal ==
  /\ pc # "panic"
  /\ pc = "fatal" => (subjects = <<>> \/ out.i > Len(subjects))

----------------------------------------------------------------------------
(* Properties of estimateSleepSchedule.                                    *)

Estimated == call.op = "estimateSleepSchedule" /\ call.done /\ call.result.analysed

\* round(0.05 * n / 24), halves upwards, not below 1
RoundedThreshold(n) ==
  IF (2 * 5 * n + HoursPerDay * 100) \div (2 * HoursPerDay * 100) < 1 THEN 1
  ELSE (2 * 5 * n + HoursPerDay * 100) \div (2 * HoursPerDay * 100)

\* C17 (as stated): the threshold of a subject with N commits is
\* max(1, round(0.05 * N / 24)); 720 commits give 2.  Violated: the
\* conversion to int cuts the fraction off, 720 commits give 1.
ThresholdIsRounded ==
  Estimated => call.result.threshold = RoundedThreshold(TotalCommits(call.hourCounts))

NightHours == {22, 23, 0, 1, 2, 3}

NightOnlyLow ==
  /\ Estimated
  /\ \A h \in 0..(HoursPerDay - 1) :
       IF h \in NightHours THEN call.hourCounts[h] = 0
       ELSE call.hourCounts[h] > call.result.threshold

WindowWithinADay ==
  Estimated
  => /\ call.result.longestLen <= HoursPerDay
     /\ (\A h \in 0..(HoursPerDay - 1) : call.hourCounts[h] <= call.result.threshold)
          => (call.result.longestLen = HoursPerDay /\ call.result.longestStart = 0)

LowHour(h) == call.hourCounts[h] <= call.result.threshold

\* the low hours from hour s on, l of them, with an hour above the
\* threshold before and after them around the clock
MaximalRun(s, l) ==
  /\ \A k \in 0..(l - 1) : LowHour((s + k) % HoursPerDay)
  /\ ~LowHour((s + HoursPerDay - 1) % HoursPerDay)
  /\ ~LowHour((s + l) % HoursPerDay)

\* C20: when some hour is above the threshold, the start and the length
\* recorded are those of a longest run of low hours around the clock, and
\* of several longest runs the one whose start the scan from hour 0 meets
\* first.
LongestRunFirstMet ==
  (Estimated /\ \E h \in 0..(HoursPerDay - 1) : ~LowHour(h))
  => IF \A h \in 0..(HoursPerDay - 1) : ~LowHour(h)
     THEN call.result.longestLen = 0
     ELSE /\ call.result.longestLen \in 1..(HoursPerDay - 1)
          /\ MaximalRun(call.result.longestStart, call.result.longestLen)
          /\ \A s \in 0..(HoursPerDay - 1) : \A l \in 1..(HoursPerDay - 1) :
               MaximalRun(s, l) =>
                 \/ l < call.result.longestLen
                 \/ (l = call.result.longestLen /\ s >= call.result.longestStart)

\* C20 (witness): two longest runs of 6 hours, one from hour 10 and one
\* from hour 22 around midnight; the one from hour 10 is recorded.
EarlierOfTwoRunsKept ==
  /\ Estimated
  /\ MaximalRun(10, 6)
  /\ MaximalRun(22, 6)
  /\ call.result.longestStart = 10
  /\ call.result.longestLen = 6

\* the l hours from hour s on, around the clock, are all low
LowRun(s, l) == \A k \in 0..(l - 1) : LowHour((s + k) % HoursPerDay)

\* C21: a window is reported exactly when some 4 consecutive hours around
\* the clock are all low, that is when the longest low run has at least 4
\* hours; when every hour is above the threshold no window is reported.
WindowIffFourLowHours ==
  Estimated
  => /\ call.result.window <=> \E s \in 0..(HoursPerDay - 1) : LowRun(s, 4)
     /\ (\A h \in 0..(HoursPerDay - 1) : ~LowHour(h)) => ~call.result.window

\* C21 (witness): the longest low run has 3 hours and no window is
\* reported.
ThreeLowHoursNoWindow ==
  /\ Estimated
  /\ \E s \in 0..(HoursPerDay - 1) : MaximalRun(s, 3)
  /\ ~\E s \in 0..(HoursPerDay - 1) : LowRun(s, 4)
  /\ ~call.result.window

----------------------------------------------------------------------------
(* Properties of the whole run.                                            *)

\* C22: the runs of the pipeline over the same raw records, with the same
\* cutoff and order of sources, yield the same map of commits, the same
\* histogram and the same estimate, whatever the order in which the map
\* hands out its entries.
RerunsAgree ==
  call.op = "pipeline" =>
    \A i \in 1..Len(call.runs) : \A j \in 1..Len(call.runs) :
      /\ call.runs[i].commits = call.runs[j].commits
      /\ call.runs[i].hourCounts = call.runs[j].hourCounts
      /\ call.runs[i].estimate = call.runs[j].estimate

\* C22 (witness): two runs over two sources and a map of three commits
\* at three hours, counted in different orders.
RerunInAnotherOrder ==
  /\ call.op = "pipeline"
  /\ Len(call.runs) = 2
  /\ call.runs[1].keys # call.runs[2].keys
  /\ Cardinality(DOMAIN call.runs[1].commits) = 3
  /\ Cardinality({h \in 0..(HoursPerDay - 1) : call.runs[1].hourCounts[h] > 0}) = 3
  /\ Len(call.raw) = 2

\* C23 (as stated, for the runs that print the histograms): with the
\* write flag set, once output has run over the subjects the snapshot
\* holds the histogram of every subject that has a commit.  Violated: save
\* creates the file anew for every subject, so the snapshot holds the
\* last subject's histogram alone.  (Without the stdout flag save is not
\* called at all, printSleepHisto being its only caller.)
SnapshotHoldsEverySubject ==
  (pc = "done" /\ flags.Write /\ flags.StdOut)
  => \A j \in 1..Len(subjects) :
       subjects[j].Commits # EmptyMap
       => /\ subjects[j].Name \in DOMAIN out.snapshot
          /\ out.snapshot[subjects[j].Name] = HourCounts(subjects[j].Commits)

\* C24 (as stated): for a host whose dialect detectAPI found by probing,
\* the enumerator it returns sends its one listing request to that host.
\* Violated: fetchGitHubRepoURLs always asks api.github.com, and
\* fetchGitLabRepoURLs returns an error without a request for a host whose
\* name holds neither "gitlab" nor "gitea".
ProbedHostIsQueried ==
  (/\ source.fn = "getSource"
   /\ source.repoName = ""
   /\ source.fetcher # "none"
   /\ net.probes # <<>>
   /\ pc \in {"return", "getRepo", "panic"})
  => /\ Len(net.listings) = 1
     /\ HasPrefix(ToLower(net.listings[1]), "https://" \o ToLower(source.host) \o "/")

----------------------------------------------------------------------------
(* Properties of printSleepHisto.                                          *)

\* the largest count of an hour
MaxCount(hourCounts) ==
  CHOOSE c \in {hourCounts[h] : h \in 0..(HoursPerDay - 1)} :
    \A h \in 0..(HoursPerDay - 1) : hourCounts[h] <= c

\* C25 (as stated): no bar has more than 80 '#'; when the largest count
\* of an hour is above 80 every bar is scaled by 80 over that count; the
\* counts are padded to the number of digits of the largest count.
\* Violated: maxi is the latest hour that has a commit, not the largest
\* count, so it never exceeds 23, no bar is ever scaled, and the width is
\* that of an hour.
BarsWithinTerminal ==
  (call.op = "printSleepHisto" /\ call.done)
  => /\ \A h \in 0..(HoursPerDay - 1) : call.result.hashtags[h] <= 80
     /\ MaxCount(call.result.hourCounts) > 80
          => \A h \in 0..(HoursPerDay - 1) :
               call.result.hashtags[h] =
                 (call.result.hourCounts[h] * 80) \div MaxCount(call.result.hourCounts)
     /\ call.result.width = Digits(MaxCount(call.result.hourCounts))

=============================================================================
